---- MODULE Spec2Model ----
(***************************************************************************)
(* Model of the ggquick webhook server (pkg/server/server.go), the hooks   *)
(* manager it calls (pkg/hooks/hooks.go) and the start command that runs   *)
(* it (cmd/main.go).                                                       *)
(*                                                                         *)
(* Strings that the code parses (refs, repository URLs) are sequences of   *)
(* tokens, "/" and ".git" being tokens of their own; strings that the code *)
(* only passes along (branch names returned by the code host, commit       *)
(* messages, diff URLs, titles) are TLA+ strings, "" being the empty one.  *)
(* Time advances in ticks of a fifth of a second (NewRateLimiter(5, 10)):   *)
(* one tick refills one token of every bucket.                             *)
(***************************************************************************)
EXTENDS Integers, Sequences, FiniteSets, TLC

\* ---------------------------------------------------------------- bounds
MaxReq == 2          \* request slots handled concurrently

\* ------------------------------------------------------ program constants
Burst == 10          \* NewRateLimiter(5, 10): the capacity of a bucket
StatusOK                  == 200
StatusBadRequest          == 400
StatusMethodNotAllowed    == 405
StatusTooManyRequests     == 429
StatusInternalServerError == 500

Reqs == 1..MaxReq

\* ------------------------------------------------------- string helpers
RefsHeads == <<"refs", "/", "heads", "/">>
DotGit    == <<".git">>
Slash     == "/"

HasPrefix(s, p) == Len(s) >= Len(p) /\ SubSeq(s, 1, Len(p)) = p
TrimSuffix_Keep(s, p) == s

HasSuffix(s, p) == Len(s) >= Len(p) /\ SubSeq(s, Len(s) - Len(p) + 1, Len(s)) = p
TrimPrefix(s, p) == IF HasPrefix(s, p) THEN SubSeq(s, Len(p) + 1, Len(s)) ELSE s
TrimSuffix(s, p) == IF HasSuffix(s, p) THEN SubSeq(s, 1, Len(s) - Len(p)) ELSE s

RECURSIVE Split(_, _)
Split(s, sep) ==
    IF \E i \in 1..Len(s) : s[i] = sep
    THEN LET i == CHOOSE j \in 1..Len(s) :
                      s[j] = sep /\ \A k \in 1..(j - 1) : s[k] # sep
         IN  <<SubSeq(s, 1, i - 1)>> \o Split(SubSeq(s, i + 1, Len(s)), sep)
    ELSE <<s>>

Min(a, b) == IF a < b THEN a ELSE b

\* --------------------------------------------------------------- values
\* s.config == nil is the record with set = FALSE.
NilConfig == [set |-> FALSE, RepoURL |-> <<>>, Owner |-> <<>>, Name |-> <<>>]
\* A request body: its Content-Type, whether json.Decode accepts it, and
\* the fields a decoded body carries (sha is the first line of a text body).
JSON      == "application/json"
NoBody    == [ctype |-> JSON, valid |-> FALSE, ref |-> <<>>, sha |-> "",
              url |-> <<>>, owner |-> <<>>, name |-> <<>>]
\* A response body: nothing, or text that is no JSON (http.Error), is the
\* record with json = FALSE.
NoReply   == [json |-> FALSE, status |-> "", version |-> "",
              owner |-> <<>>, name |-> <<>>]
\* ai.RepoInfo as handlePush builds it: Changes is a map with at most the
\* one key branchName.
NoRepoInfo == [Changes |-> <<>>, BranchName |-> <<>>, CommitMessage |-> "",
               ContributingFile |-> ""]
NoContent == [Title |-> "", Description |-> ""]
NoPR      == [made |-> FALSE, owner |-> <<>>, repo |-> <<>>, head |-> <<>>,
              base |-> "", title |-> "", body |-> "", labelled |-> FALSE]
NoGitHub  == [set |-> FALSE, owner |-> <<>>, repo |-> <<>>]
GenericMessage == "feat: improve resilience in PR generation"
Labels == {"automated-pr"}

\* gone: the client has gone away, the request's context is cancelled.
Blank == [pc |-> "idle", entry |-> "direct", limited |-> FALSE, gone |-> FALSE,
          route |-> "/health", method |-> "GET", xff |-> "", remote |-> <<>>,
          body |-> NoBody, lim |-> 0, cfg |-> NilConfig, branchName |-> <<>>,
          defaultBranch |-> "", repoInfo |-> NoRepoInfo, prContent |-> NoContent,
          status |-> 0, reply |-> NoReply, calls |-> <<>>, pr |-> NoPR]

Ok(v)  == [err |-> FALSE, val |-> v]
Failed == [err |-> TRUE, val |-> ""]

\* ---------------------------------------------------------------- state
VARIABLES
    config,         \* Server.config
    mu,             \* Server.mu: [writer, readers]
    visitors,       \* RateLimiter.visitors: key -> bucket
    buckets,        \* the rate.Limiter objects: bucket -> [tokens, admitted, idle]
    req,            \* the requests being handled, one per slot
    hooksGithub,    \* hooks.Manager.github
    srv,            \* Server.srv: "nil", "created", "listening", "shutdown"
    startPc,        \* where the call of Server.Start is
    goPc,           \* where the goroutine running ListenAndServe is
    serverStarted,  \* the serverStarted channel is closed
    stopPc,         \* where each call of Server.Stop is, per caller
    ctxDone,        \* the context passed to Start is cancelled
    sigPc,          \* the signal goroutine of startServer
    pidFile,        \* /tmp/ggquick.pid exists
    proc,           \* the process: "running", "exit0", "exit1", "panic"
    hookFiles,      \* the files of the hooks directory: name -> file
    managerHooks,   \* hooks.Manager.hooks: the names stored in the sync.Map
    returned,       \* what the last call of a library function returned
    github,         \* Server.github, an interface value: [dyn, ptr]
    cli             \* further runs of the start command, where each is

vars == <<config, mu, visitors, buckets, req, hooksGithub, srv, startPc, goPc,
          serverStarted, stopPc, ctxDone, sigPc, pidFile, proc,
          hookFiles, managerHooks, returned, github, cli>>

toolVars == <<hookFiles, managerHooks, returned, github, cli>>

\* The hooks UpdateRepo installs, and a file of the hooks directory:
\* whether it exists, whether a mode bit of 0111 is set, what it holds.
HookNames == {"post-commit", "post-push"}
NoFile == [present |-> FALSE, exec |-> FALSE, content |-> ""]
NoRet == [fn |-> "", arg |-> <<>>, owner |-> <<>>, repo |-> <<>>, err |-> FALSE]

limiterVars == <<visitors, buckets>>
lifeVars == <<srv, startPc, goPc, serverStarted, stopPc, ctxDone, sigPc,
              pidFile, proc>>

\* A value of the interface type GitHubClient: its dynamic type, none for
\* the nil interface, and whether the pointer it holds is not nil.
NilInterface == [dyn |-> "", ptr |-> FALSE]
\* github.New: nil, a *Client, when GITHUB_TOKEN is not set; as an argument
\* of server.New the pointer becomes an interface value of type *Client.
GithubNew(token) == [dyn |-> "*github.Client", ptr |-> token # ""]

\* Runs of "ggquick start" beside the process the other variables follow.
Invocations == {"a", "b"}

Callers == {"start", "test"}

Init ==
    /\ config = NilConfig
    /\ mu = [writer |-> "none", readers |-> {}]
    /\ visitors = <<>>
    /\ buckets = <<>>
    /\ req = [r \in Reqs |-> Blank]
    /\ hooksGithub = NoGitHub
    /\ srv = "nil"
    /\ startPc = "idle"
    /\ goPc = "none"
    /\ serverStarted = FALSE
    /\ stopPc = [c \in Callers |-> "idle"]
    /\ ctxDone = FALSE
    /\ sigPc = "wait"
    /\ pidFile = TRUE
    /\ proc = "running"
    /\ hookFiles = [h \in HookNames |-> NoFile]
    /\ managerHooks = {}
    /\ returned = NoRet
    /\ github = GithubNew("token")
    /\ cli = [p \in Invocations |-> "idle"]

Running == proc = "running"

\* --------------------------------------------------------- rate limiter
\* rate.NewLimiter(rl.rate, rl.burst): a full bucket.  admitted and idle
\* are history: the admissions since the last refill, and the ticks since
\* the last admission (counted up to Burst, a full refill interval).
NewLimiter == [tokens |-> Burst, admitted |-> 0, idle |-> 0]

\* limiter.Allow(): a token is there to withdraw.
AllowOk(b) == b.tokens >= 1

Withdraw_Free(b) == [tokens |-> b.tokens, admitted |-> b.admitted + 1, idle |-> 0]

\* limiter.Allow() returning true withdraws one token.
Withdraw(b) == [tokens |-> b.tokens - 1, admitted |-> b.admitted + 1, idle |-> 0]

Reject_Charged(b) == [b EXCEPT !.tokens = @ - 1]

\* limiter.Allow() returning false leaves the bucket as it is.
Reject(b) == b

\* One tick refills one token, up to the capacity.
Refill(b) == [tokens |-> Min(Burst, b.tokens + 1), admitted |-> 0,
              idle |-> Min(Burst, b.idle + 1)]

\* The key rateLimit charges: X-Forwarded-For, or else r.RemoteAddr.
ClientKey(q) == IF q.xff # "" THEN <<q.xff>> ELSE q.remote

FreshBucket_Shared(bks) ==
    IF DOMAIN bks = {} THEN 1 ELSE CHOOSE i \in DOMAIN bks : TRUE

\* GetVisitor: rate.NewLimiter makes an object of its own.
FreshBucket(bks) == CHOOSE i \in 1..(Cardinality(DOMAIN bks) + 1) : i \notin DOMAIN bks

\* Buckets that neither the map nor a request in flight refers to are gone.
Live(vis, rq, bks) ==
    LET used == {vis[k] : k \in DOMAIN vis} \cup {rq[r].lim : r \in Reqs}
    IN  [i \in (DOMAIN bks) \cap used |-> bks[i]]

GetVisitor_Racy(r) ==
    /\ Running
    /\ req[r].pc = "limit"
    /\ LET ip == ClientKey(req[r])
           b == FreshBucket(buckets)
       IN  /\ buckets' = (b :> NewLimiter) @@ buckets
           /\ visitors' = (ip :> b) @@ visitors
           /\ req' = [req EXCEPT ![r].lim = b, ![r].pc = "allow"]
    /\ UNCHANGED <<config, mu, hooksGithub, lifeVars>>
    /\ UNCHANGED toolVars

\* RateLimiter.GetVisitor, called by the rateLimit middleware.
GetVisitor(r) ==
    /\ Running
    /\ req[r].pc = "limit"
    /\ LET ip == ClientKey(req[r])
       IN  IF ip \in DOMAIN visitors
           THEN /\ req' = [req EXCEPT ![r].lim = visitors[ip], ![r].pc = "allow"]
                /\ UNCHANGED <<visitors, buckets>>
           ELSE LET b == FreshBucket(buckets)
                IN  /\ buckets' = (b :> NewLimiter) @@ buckets
                    /\ visitors' = (ip :> b) @@ visitors
                    /\ req' = [req EXCEPT ![r].lim = b, ![r].pc = "allow"]
    /\ UNCHANGED <<config, mu, hooksGithub, lifeVars>>
    /\ UNCHANGED toolVars

\* rateLimit: limiter.Allow() and what follows it.
Allow(r) ==
    /\ Running
    /\ req[r].pc = "allow"
    /\ LET b == req[r].lim
       IN  IF AllowOk(buckets[b])
           THEN LET rq == [req EXCEPT ![r].lim = 0, ![r].pc = "handler"]
                IN  /\ req' = rq
                    /\ buckets' = Live(visitors, rq, [buckets EXCEPT ![b] = Withdraw(@)])
           ELSE LET rq == [req EXCEPT ![r].lim = 0, ![r].pc = "done",
                                      ![r].status = StatusTooManyRequests]
                IN  /\ req' = rq
                    /\ buckets' = Live(visitors, rq, [buckets EXCEPT ![b] = Reject(@)])
    /\ UNCHANGED <<config, mu, visitors, hooksGithub, lifeVars>>
    /\ UNCHANGED toolVars

CleanupVisitors_Oldest(vis) ==
    LET old == {k \in DOMAIN vis : \A j \in DOMAIN vis : vis[k] <= vis[j]}
    IN  [k \in (DOMAIN vis) \ old |-> vis[k]]

\* RateLimiter.CleanupVisitors: every entry of the map is deleted.
CleanupVisitors(vis) == [ip \in {} |-> 0]

\* Time passes by one tick: every bucket refills.
Tick ==
    /\ Running
    /\ buckets' = [i \in DOMAIN buckets |-> Refill(buckets[i])]
    /\ buckets' # buckets
    /\ UNCHANGED <<config, mu, visitors, req, hooksGithub, lifeVars>>
    /\ UNCHANGED toolVars

\* ------------------------------------------------------------- requests
\* A request arrives: through the listening server's mux, which wraps
\* /config and /push in rateLimit and leaves /health bare, or by a direct
\* call of the handler (bare or wrapped), as the package's tests call it.
Arrive(r, S) ==
    /\ Running
    /\ req[r].pc = "idle"
    /\ \E entry \in S.entries, route \in S.routes, method \in S.methods,
          xff \in S.xffs, remote \in S.remotes, limited \in BOOLEAN :
         /\ entry = "mux" => srv = "listening" /\ limited = (route # "/health")
         /\ entry = "direct" => route # "/health" /\ limited \in S.limited
         /\ \E body \in (IF route = "/push" THEN S.pushBodies
                         ELSE IF route = "/config" THEN S.configBodies
                         ELSE {NoBody}) :
              req' = [req EXCEPT ![r] =
                        [Blank EXCEPT !.pc = IF limited THEN "limit" ELSE "handler",
                                      !.entry = entry, !.limited = limited,
                                      !.route = route, !.method = method,
                                      !.xff = xff, !.remote = remote,
                                      !.body = body]]
    /\ UNCHANGED <<config, mu, limiterVars, hooksGithub, lifeVars>>
    /\ UNCHANGED toolVars

\* The response has been read: the slot is free for the next request.
Forget(r) ==
    /\ Running
    /\ req[r].pc = "done"
    /\ req' = [req EXCEPT ![r] = Blank]
    /\ UNCHANGED <<config, mu, limiterVars, hooksGithub, lifeVars>>
    /\ UNCHANGED toolVars

Respond(q, code) == [q EXCEPT !.pc = "done", !.status = code]

\* The /health closure, had it read the configuration under s.mu.
HandleHealth_Locked(r) ==
    /\ Running
    /\ req[r].pc = "handler"
    /\ req[r].route = "/health"
    /\ mu.writer = "none"
    /\ req' = [req EXCEPT ![r] = Respond(@, StatusOK)]
    /\ UNCHANGED <<config, mu, limiterVars, hooksGithub, lifeVars>>
    /\ UNCHANGED toolVars

\* The /health closure registered in Start.
HandleHealth(r) ==
    /\ Running
    /\ req[r].pc = "handler"
    /\ req[r].route = "/health"
    /\ req' = [req EXCEPT ![r] =
                [Respond(@, StatusOK) EXCEPT
                    !.reply = [NoReply EXCEPT !.json = TRUE, !.status = "ok",
                                              !.version = "1.0.0"]]]
    /\ UNCHANGED <<config, mu, limiterVars, hooksGithub, lifeVars>>
    /\ UNCHANGED toolVars

\* ---------------------------------------------------------- handleConfig
ParseConfig_Lenient(body) ==
    IF body.owner = <<>> \/ body.name = <<>>
    THEN LET parts == Split(TrimSuffix(body.url, DotGit), Slash)
         IN  [ok |-> TRUE,
              cfg |-> [set |-> TRUE, RepoURL |-> body.url,
                       Owner |-> IF Len(parts) < 2 THEN <<>> ELSE parts[Len(parts) - 1],
                       Name |-> parts[Len(parts)]]]
    ELSE [ok |-> TRUE,
          cfg |-> [set |-> TRUE, RepoURL |-> body.url,
                   Owner |-> body.owner, Name |-> body.name]]

\* The owner and name handleConfig stores for a decoded body: as given when
\* both are there, or else the last two "/"-separated parts of the URL
\* without a trailing ".git"; ok is FALSE for fewer than two parts.
ParseConfig(body) ==
    IF body.owner = <<>> \/ body.name = <<>>
    THEN LET parts == Split(TrimSuffix(body.url, DotGit), Slash)
         IN  IF Len(parts) < 2
             THEN [ok |-> FALSE, cfg |-> NilConfig]
             ELSE [ok |-> TRUE,
                   cfg |-> [set |-> TRUE, RepoURL |-> body.url,
                            Owner |-> parts[Len(parts) - 1],
                            Name |-> parts[Len(parts)]]]
    ELSE [ok |-> TRUE,
          cfg |-> [set |-> TRUE, RepoURL |-> body.url,
                   Owner |-> body.owner, Name |-> body.name]]

\* handleConfig up to the lock: the method, the body, the owner and name.
ConfigDecode(r) ==
    /\ Running
    /\ req[r].pc = "handler"
    /\ req[r].route = "/config"
    /\ LET q == req[r]
           parsed == ParseConfig(q.body)
       IN  req' = [req EXCEPT ![r] =
                IF q.method # "POST" THEN Respond(q, StatusMethodNotAllowed)
                ELSE IF ~q.body.valid THEN Respond(q, StatusBadRequest)
                ELSE IF ~parsed.ok THEN Respond(q, StatusBadRequest)
                ELSE [q EXCEPT !.pc = "c_lock", !.cfg = parsed.cfg]]
    /\ UNCHANGED <<config, mu, limiterVars, hooksGithub, lifeVars>>
    /\ UNCHANGED toolVars

\* sync.RWMutex: Lock waits for the writer and the readers to leave, RLock
\* for the writer.
CanLock  == mu.writer = "none" /\ mu.readers = {}
CanRLock == mu.writer = "none"

\* handleConfig: s.mu.Lock()
ConfigLock(r) ==
    /\ Running
    /\ req[r].pc = "c_lock"
    /\ CanLock
    /\ mu' = [mu EXCEPT !.writer = "handleConfig"]
    /\ req' = [req EXCEPT ![r].pc = "c_store"]
    /\ UNCHANGED <<config, limiterVars, hooksGithub, lifeVars>>
    /\ UNCHANGED toolVars

ConfigStore_Merge(r) ==
    /\ Running
    /\ req[r].pc = "c_store"
    /\ config' = IF config.set THEN [req[r].cfg EXCEPT !.Owner = config.Owner]
                 ELSE req[r].cfg
    /\ mu' = [mu EXCEPT !.writer = "none"]
    /\ req' = [req EXCEPT ![r] = Respond(@, StatusOK)]
    /\ UNCHANGED <<limiterVars, hooksGithub, lifeVars>>
    /\ UNCHANGED toolVars

\* handleConfig: s.config = &config, s.mu.Unlock(), 200
ConfigStore(r) ==
    /\ Running
    /\ req[r].pc = "c_store"
    /\ config' = req[r].cfg
    /\ mu' = [mu EXCEPT !.writer = "none"]
    /\ req' = [req EXCEPT ![r] = Respond(@, StatusOK)]
    /\ UNCHANGED <<limiterVars, hooksGithub, lifeVars>>
    /\ UNCHANGED toolVars

\* handleResponse of the apply command, which reads the answer to its
\* POST /config: nil only for a 200 whose body is JSON with the status
\* "config_stored".
handleResponse(status, reply) ==
    IF status # StatusOK THEN "error status"
    ELSE IF ~reply.json THEN "failed to parse server response"
    ELSE IF reply.status # "config_stored" THEN "server did not confirm config storage"
    ELSE "nil"

\* ------------------------------------------------------------ handlePush
\* A collaborator call as the request's history keeps it: the repository
\* and the arguments it was given, whether it failed, what it returned.
Call(fn, cfg, x, y, err, ret) ==
    [fn |-> fn, owner |-> cfg.Owner, repo |-> cfg.Name, x |-> x, y |-> y,
     err |-> err, ret |-> ret]

Ctx_Background(q) == [cancelled |-> FALSE]

\* r.Context(), which handlePush hands to every collaborator call.
Ctx(q) == [cancelled |-> q.gone]

\* What a collaborator that honours its context can return: only the
\* context's error once the context is cancelled.
Honour(ctx, outs, failed) == IF ctx.cancelled THEN {failed} ELSE outs

\* The client of a request under way goes away: net/http cancels the
\* request's context.
ClientGone(r) ==
    /\ Running
    /\ req[r].pc \notin {"idle", "done"}
    /\ ~req[r].gone
    /\ req' = [req EXCEPT ![r].gone = TRUE]
    /\ UNCHANGED <<config, mu, limiterVars, hooksGithub, lifeVars>>
    /\ UNCHANGED toolVars

Configured_Always(c) == TRUE

\* handlePush: config == nil is answered 400.
Configured(c) == c.set

DefaultBranchOf_NoFallback(out) == out.val

\* handlePush: "main" stands in for a default branch that could not be got.
DefaultBranchOf(out) == IF out.err THEN "main" ELSE out.val

GenerateAborts_Never(out) == FALSE

\* handlePush: an error of GeneratePR ends the push.
GenerateAborts(out) == out.err

CreateStatus_AlwaysOK(out) == StatusOK

\* handlePush: 500 unless CreatePullRequest returned without error.
CreateStatus(out) == IF out # "ok" THEN StatusInternalServerError ELSE StatusOK

PushMethod_Any(r) ==
    /\ Running
    /\ req[r].pc = "handler"
    /\ req[r].route = "/push"
    /\ req' = [req EXCEPT ![r].pc = "p_rlock"]
    /\ UNCHANGED <<config, mu, limiterVars, hooksGithub, lifeVars>>
    /\ UNCHANGED toolVars

\* handlePush: the method check.
PushMethod(r) ==
    /\ Running
    /\ req[r].pc = "handler"
    /\ req[r].route = "/push"
    /\ req' = [req EXCEPT ![r] =
                IF @.method # "POST" THEN Respond(@, StatusMethodNotAllowed)
                ELSE [@ EXCEPT !.pc = "p_rlock"]]
    /\ UNCHANGED <<config, mu, limiterVars, hooksGithub, lifeVars>>
    /\ UNCHANGED toolVars

\* handlePush: s.mu.RLock()
PushRLock(r) ==
    /\ Running
    /\ req[r].pc = "p_rlock"
    /\ CanRLock
    /\ mu' = [mu EXCEPT !.readers = @ \cup {r}]
    /\ req' = [req EXCEPT ![r].pc = "p_read"]
    /\ UNCHANGED <<config, limiterVars, hooksGithub, lifeVars>>
    /\ UNCHANGED toolVars

\* handlePush: config := s.config, s.mu.RUnlock(), and the nil check.
PushReadConfig(r) ==
    /\ Running
    /\ req[r].pc = "p_read"
    /\ mu' = [mu EXCEPT !.readers = @ \ {r}]
    /\ req' = [req EXCEPT ![r] =
                IF ~Configured(config) THEN Respond(@, StatusBadRequest)
                ELSE [@ EXCEPT !.pc = "p_decode", !.cfg = config]]
    /\ UNCHANGED <<config, limiterVars, hooksGithub, lifeVars>>
    /\ UNCHANGED toolVars

BranchOf_Slice(ref) == SubSeq(ref, Len(RefsHeads) + 1, Len(ref))

\* strings.TrimPrefix(payload.Ref, "refs/heads/")
BranchOf(ref) == TrimPrefix(ref, RefsHeads)

\* handlePush: the payload is decoded and the branch name extracted.
PushDecode(r) ==
    /\ Running
    /\ req[r].pc = "p_decode"
    /\ req' = [req EXCEPT ![r] =
                IF ~@.body.valid THEN Respond(@, StatusBadRequest)
                ELSE [@ EXCEPT !.pc = "p_init",
                               !.branchName = BranchOf(req[r].body.ref)]]
    /\ UNCHANGED <<config, mu, limiterVars, hooksGithub, lifeVars>>
    /\ UNCHANGED toolVars

\* handlePush: s.hooks.InitGitHub(token, config.Owner, config.Name), which
\* (Manager.InitGitHub) replaces the manager's client and its repository.
PushInitGitHub(r, S) ==
    /\ Running
    /\ req[r].pc = "p_init"
    /\ \E out \in S.initOut :
         LET q == [req[r] EXCEPT !.calls = Append(@, Call("InitGitHub", req[r].cfg, "", "",
                                                          out.err, ""))]
         IN  IF out.err
             THEN /\ req' = [req EXCEPT ![r] = Respond(q, StatusInternalServerError)]
                  /\ UNCHANGED hooksGithub
             ELSE /\ req' = [req EXCEPT ![r] = [q EXCEPT !.pc = "p_branch"]]
                  /\ hooksGithub' = [set |-> TRUE, owner |-> q.cfg.Owner,
                                     repo |-> q.cfg.Name]
    /\ UNCHANGED <<config, mu, limiterVars, lifeVars>>
    /\ UNCHANGED toolVars

\* handlePush: GetDefaultBranch, "main" when it fails; repoInfo is set up.
\* Client.GetDefaultBranch reads c.client: with a nil *Client as receiver
\* the handler's goroutine panics on the nil pointer.
PushGetDefaultBranch(r, S) ==
    /\ Running
    /\ req[r].pc = "p_branch"
    /\ IF ~github.ptr
       THEN req' = [req EXCEPT ![r].pc = "panicked"]
       ELSE \E out \in Honour(Ctx(req[r]), S.branchOut, Failed) :
         req' = [req EXCEPT ![r] =
                  [@ EXCEPT !.calls = Append(@, Call("GetDefaultBranch", req[r].cfg, "", "",
                                                     out.err, out.val)),
                            !.defaultBranch = DefaultBranchOf(out),
                            !.repoInfo = [NoRepoInfo EXCEPT !.BranchName = req[r].branchName],
                            !.pc = "p_diff"]]
    /\ UNCHANGED <<config, mu, limiterVars, hooksGithub, lifeVars>>
    /\ UNCHANGED toolVars

PushGetDiff_Reread(r, S) ==
    /\ Running
    /\ req[r].pc = "p_diff"
    /\ \E out \in Honour(Ctx(req[r]), S.diffOut, Failed) :
         LET q == [req[r] EXCEPT !.calls = Append(@, Call("GetDiff", config,
                                            req[r].defaultBranch, req[r].branchName,
                                            out.err, out.val))]
         IN  req' = [req EXCEPT ![r] =
                  IF out.err
                  THEN [q EXCEPT !.pc = "p_msg"]
                  ELSE [q EXCEPT !.pc = "p_guide",
                                 !.repoInfo.Changes = (q.branchName :>
                                     [Path |-> out.val, Modified |-> <<out.val>>])]]
    /\ UNCHANGED <<config, mu, limiterVars, hooksGithub, lifeVars>>
    /\ UNCHANGED toolVars

\* handlePush: GetDiff against the default branch; its result becomes the
\* change entry of the branch.
PushGetDiff(r, S) ==
    /\ Running
    /\ req[r].pc = "p_diff"
    /\ \E out \in Honour(Ctx(req[r]), S.diffOut, Failed) :
         LET q == [req[r] EXCEPT !.calls = Append(@, Call("GetDiff", req[r].cfg,
                                            req[r].defaultBranch, req[r].branchName,
                                            out.err, out.val))]
         IN  req' = [req EXCEPT ![r] =
                  IF out.err
                  THEN [q EXCEPT !.pc = "p_msg"]
                  ELSE [q EXCEPT !.pc = "p_guide",
                                 !.repoInfo.Changes = (q.branchName :>
                                     [Path |-> out.val, Modified |-> <<out.val>>])]]
    /\ UNCHANGED <<config, mu, limiterVars, hooksGithub, lifeVars>>
    /\ UNCHANGED toolVars

PushGetCommitMessage_Generic(r, S) ==
    /\ Running
    /\ req[r].pc = "p_msg"
    /\ \E out \in Honour(Ctx(req[r]), S.msgOut, Failed) :
         req' = [req EXCEPT ![r] =
                  [@ EXCEPT !.calls = Append(@, Call("GetCommitMessage", req[r].cfg,
                                                     req[r].body.sha, "", out.err, out.val)),
                            !.repoInfo.CommitMessage = GenericMessage,
                            !.repoInfo.Changes = (req[r].branchName :>
                                [Path |-> req[r].branchName, Modified |-> <<GenericMessage>>]),
                            !.pc = "p_guide"]]
    /\ UNCHANGED <<config, mu, limiterVars, hooksGithub, lifeVars>>
    /\ UNCHANGED toolVars

\* handlePush, GetDiff having failed: GetCommitMessage for the pushed SHA,
\* the generic message when that fails too.
PushGetCommitMessage(r, S) ==
    /\ Running
    /\ req[r].pc = "p_msg"
    /\ \E out \in Honour(Ctx(req[r]), S.msgOut, Failed) :
         LET commitMsg == IF out.err THEN GenericMessage ELSE out.val
         IN  req' = [req EXCEPT ![r] =
                  [@ EXCEPT !.calls = Append(@, Call("GetCommitMessage", req[r].cfg,
                                                     req[r].body.sha, "", out.err, out.val)),
                            !.repoInfo.CommitMessage = commitMsg,
                            !.repoInfo.Changes = (req[r].branchName :>
                                [Path |-> req[r].branchName, Modified |-> <<commitMsg>>]),
                            !.pc = "p_guide"]]
    /\ UNCHANGED <<config, mu, limiterVars, hooksGithub, lifeVars>>
    /\ UNCHANGED toolVars

PushGetContributingGuide_Abort(r, S) ==
    /\ Running
    /\ req[r].pc = "p_guide"
    /\ \E out \in Honour(Ctx(req[r]), S.guideOut, Failed) :
         LET q == [req[r] EXCEPT !.calls = Append(@, Call("GetContributingGuide", req[r].cfg,
                                                         "", "", out.err, out.val))]
         IN  req' = [req EXCEPT ![r] =
                  IF out.err THEN Respond(q, StatusInternalServerError)
                  ELSE [q EXCEPT !.repoInfo.ContributingFile = out.val, !.pc = "p_gen"]]
    /\ UNCHANGED <<config, mu, limiterVars, hooksGithub, lifeVars>>
    /\ UNCHANGED toolVars

\* handlePush: GetContributingGuide; only a guide that came without error
\* and is not empty is kept.
PushGetContributingGuide(r, S) ==
    /\ Running
    /\ req[r].pc = "p_guide"
    /\ \E out \in Honour(Ctx(req[r]), S.guideOut, Failed) :
         req' = [req EXCEPT ![r] =
                  [@ EXCEPT !.calls = Append(@, Call("GetContributingGuide", req[r].cfg, "", "",
                                                     out.err, out.val)),
                            !.repoInfo.ContributingFile =
                                IF ~out.err /\ out.val # "" THEN out.val ELSE @,
                            !.pc = "p_gen"]]
    /\ UNCHANGED <<config, mu, limiterVars, hooksGithub, lifeVars>>
    /\ UNCHANGED toolVars

PushGeneratePR_Retry(r, S) ==
    /\ Running
    /\ req[r].pc = "p_gen"
    /\ \E out \in S.genOut :
         LET q == [req[r] EXCEPT !.calls = Append(@, Call("GeneratePR", req[r].cfg,
                                        req[r].repoInfo, "", out.err, out.val))]
             first == \A i \in DOMAIN req[r].calls : req[r].calls[i].fn # "GeneratePR"
         IN  req' = [req EXCEPT ![r] =
                  IF GenerateAborts(out)
                  THEN IF first THEN q ELSE Respond(q, StatusInternalServerError)
                  ELSE [q EXCEPT !.pc = "p_create",
                                 !.prContent = IF out.err THEN NoContent ELSE out.val]]
    /\ UNCHANGED <<config, mu, limiterVars, hooksGithub, lifeVars>>
    /\ UNCHANGED toolVars

\* handlePush: s.ai.GeneratePR(ctx, repoInfo); an error ends the push with 500.
PushGeneratePR(r, S) ==
    /\ Running
    /\ req[r].pc = "p_gen"
    /\ \E out \in Honour(Ctx(req[r]), S.genOut, Failed) :
         LET q == [req[r] EXCEPT !.calls = Append(@, Call("GeneratePR", req[r].cfg,
                                        req[r].repoInfo, "", out.err, out.val))]
         IN  req' = [req EXCEPT ![r] =
                  IF GenerateAborts(out) THEN Respond(q, StatusInternalServerError)
                  ELSE [q EXCEPT !.pc = "p_create",
                                 !.prContent = IF out.err THEN NoContent ELSE out.val]]
    /\ UNCHANGED <<config, mu, limiterVars, hooksGithub, lifeVars>>
    /\ UNCHANGED toolVars

\* The hooks.PullRequestOptions handlePush builds.
PullRequestOptions(q) ==
    [Title |-> q.prContent.Title, Description |-> q.prContent.Description,
     Branch |-> q.branchName, BaseBranch |-> q.defaultBranch, Labels |-> Labels]

\* Manager.CreatePullRequest: the pull request is created in the manager's
\* repository, then labelled; either call can fail.
CreatePullRequest(gh, opts, out) ==
    IF out = "create_err" THEN NoPR
    ELSE [made |-> TRUE, owner |-> gh.owner, repo |-> gh.repo, head |-> opts.Branch,
          base |-> opts.BaseBranch, title |-> opts.Title, body |-> opts.Description,
          labelled |-> (out = "ok")]

\* handlePush: s.hooks.CreatePullRequest(ctx, opts): 500 on an error, 200 "ok".
PushCreatePullRequest(r, S) ==
    /\ Running
    /\ req[r].pc = "p_create"
    /\ \E out \in Honour(Ctx(req[r]), S.createOut, "create_err") :
         LET opts == PullRequestOptions(req[r])
             q == [req[r] EXCEPT !.calls = Append(@, Call("CreatePullRequest", req[r].cfg,
                                                  opts, "", out # "ok", "")),
                                 !.pr = CreatePullRequest(hooksGithub, opts, out)]
         IN  req' = [req EXCEPT ![r] = Respond(q, CreateStatus(out))]
    /\ UNCHANGED <<config, mu, limiterVars, hooksGithub, lifeVars>>
    /\ UNCHANGED toolVars

\* ------------------------------------------------- Server.Start and Stop
\* Start is called (by startServer).
StartCall ==
    /\ Running
    /\ startPc = "idle"
    /\ startPc' = "lock"
    /\ UNCHANGED <<config, mu, limiterVars, req, hooksGithub, srv, goPc,
                   serverStarted, stopPc, ctxDone, sigPc, pidFile, proc>>
    /\ UNCHANGED toolVars

\* Start: s.mu.Lock(); the deferred Unlock runs when Start returns.
StartLock ==
    /\ Running
    /\ startPc = "lock"
    /\ CanLock
    /\ mu' = [mu EXCEPT !.writer = "Start"]
    /\ startPc' = "setup"
    /\ UNCHANGED <<config, limiterVars, req, hooksGithub, srv, goPc,
                   serverStarted, stopPc, ctxDone, sigPc, pidFile, proc>>
    /\ UNCHANGED toolVars

\* Start: the mux and s.srv are set up and the serving goroutine is started.
StartServe ==
    /\ Running
    /\ startPc = "setup"
    /\ srv' = "created"
    /\ goPc' = "spawned"
    /\ startPc' = "select"
    /\ UNCHANGED <<config, mu, limiterVars, req, hooksGithub,
                   serverStarted, stopPc, ctxDone, sigPc, pidFile, proc>>
    /\ UNCHANGED toolVars

\* close(ch) of a channel: a second close panics.
Close(closed) == IF closed THEN "panic" ELSE "running"

\* The goroutine: close(serverStarted), before it listens.
GoStarted ==
    /\ Running
    /\ goPc = "spawned"
    /\ proc' = Close(serverStarted)
    /\ serverStarted' = TRUE
    /\ goPc' = "listen"
    /\ UNCHANGED <<config, mu, limiterVars, req, hooksGithub, srv, startPc,
                   stopPc, ctxDone, sigPc, pidFile>>
    /\ UNCHANGED toolVars

\* The goroutine: ListenAndServe binds the port and serves (after a
\* Shutdown it returns ErrServerClosed at once and the goroutine ends).
GoListen ==
    /\ Running
    /\ goPc = "listen"
    /\ IF srv = "shutdown"
       THEN goPc' = "exited" /\ srv' = srv
       ELSE goPc' = "serving" /\ srv' = "listening"
    /\ UNCHANGED <<config, mu, limiterVars, req, hooksGithub, startPc,
                   serverStarted, stopPc, ctxDone, sigPc, pidFile, proc>>
    /\ UNCHANGED toolVars

\* The goroutine: ListenAndServe fails (the port is taken); serverStarted
\* is closed once more, ahead of the send on serverErr.
GoListenFailed ==
    /\ Running
    /\ goPc = "listen"
    /\ srv # "shutdown"
    /\ proc' = Close(serverStarted)
    /\ goPc' = "failed"
    /\ UNCHANGED <<config, mu, limiterVars, req, hooksGithub, srv, startPc,
                   serverStarted, stopPc, ctxDone, sigPc, pidFile>>
    /\ UNCHANGED toolVars

\* The goroutine: ListenAndServe returns ErrServerClosed after Shutdown.
GoServed ==
    /\ Running
    /\ goPc = "serving"
    /\ srv = "shutdown"
    /\ goPc' = "exited"
    /\ UNCHANGED <<config, mu, limiterVars, req, hooksGithub, srv, startPc,
                   serverStarted, stopPc, ctxDone, sigPc, pidFile, proc>>
    /\ UNCHANGED toolVars

\* Start, first select: serverStarted is closed.
StartStarted ==
    /\ Running
    /\ startPc = "select"
    /\ serverStarted
    /\ startPc' = "loop"
    /\ UNCHANGED <<config, mu, limiterVars, req, hooksGithub, srv, goPc,
                   serverStarted, stopPc, ctxDone, sigPc, pidFile, proc>>
    /\ UNCHANGED toolVars

\* Start, first select: five seconds pass before the goroutine has run;
\* Start returns an error and its deferred Unlock runs.
StartTimeout ==
    /\ Running
    /\ startPc = "select"
    /\ ~serverStarted
    /\ startPc' = "returned_err"
    /\ mu' = [mu EXCEPT !.writer = "none"]
    /\ UNCHANGED <<config, limiterVars, req, hooksGithub, srv, goPc,
                   serverStarted, stopPc, ctxDone, sigPc, pidFile, proc>>
    /\ UNCHANGED toolVars

\* Start, the loop: ctx.Done(), return s.Stop().
StartCtxDone ==
    /\ Running
    /\ startPc = "loop"
    /\ ctxDone
    /\ startPc' = "stopping"
    /\ stopPc' = [stopPc EXCEPT !["start"] = "lock"]
    /\ UNCHANGED <<config, mu, limiterVars, req, hooksGithub, srv, goPc,
                   serverStarted, ctxDone, sigPc, pidFile, proc>>
    /\ UNCHANGED toolVars

\* Start, the loop: the cleanup ticker fires.
StartCleanup ==
    /\ Running
    /\ startPc = "loop"
    /\ visitors' = CleanupVisitors(visitors)
    /\ buckets' = Live(visitors', req, buckets)
    /\ visitors' # visitors
    /\ UNCHANGED <<config, mu, req, hooksGithub, lifeVars>>
    /\ UNCHANGED toolVars

\* Stop is called directly (the tests' cleanup), also a second time.
StopCall ==
    /\ Running
    /\ stopPc["test"] \in {"idle", "ret_nil", "ret_err"}
    /\ stopPc' = [stopPc EXCEPT !["test"] = "lock"]
    /\ UNCHANGED <<config, mu, limiterVars, req, hooksGithub, srv, startPc, goPc,
                   serverStarted, ctxDone, sigPc, pidFile, proc>>
    /\ UNCHANGED toolVars

\* Stop: s.mu.Lock()
StopLock(c) ==
    /\ Running
    /\ stopPc[c] = "lock"
    /\ CanLock
    /\ mu' = [mu EXCEPT !.writer = "Stop"]
    /\ stopPc' = [stopPc EXCEPT ![c] = "locked"]
    /\ UNCHANGED <<config, limiterVars, req, hooksGithub, srv, startPc, goPc,
                   serverStarted, ctxDone, sigPc, pidFile, proc>>
    /\ UNCHANGED toolVars

\* Stop returns to its caller: its deferred Unlock runs, and a Start that
\* called it returns what it returned (Start's own deferred Unlock).
StopReturns(c, result) ==
    /\ mu' = [mu EXCEPT !.writer = "none"]
    /\ stopPc' = [stopPc EXCEPT ![c] = result]
    /\ startPc' = IF c # "start" THEN startPc
                  ELSE IF result = "ret_nil" THEN "returned_nil" ELSE "returned_err"

\* Stop: nothing to do when s.srv is nil, or else s.srv.Shutdown(ctx) with
\* thirty seconds of grace: the server stops accepting.
StopShutdown(c) ==
    /\ Running
    /\ stopPc[c] = "locked"
    /\ IF srv = "nil"
       THEN StopReturns(c, "ret_nil") /\ srv' = srv
       ELSE /\ srv' = "shutdown"
            /\ stopPc' = [stopPc EXCEPT ![c] = "shutting"]
            /\ UNCHANGED <<mu, startPc>>
    /\ UNCHANGED <<config, limiterVars, req, hooksGithub, goPc,
                   serverStarted, ctxDone, sigPc, pidFile, proc>>
    /\ UNCHANGED toolVars

\* The requests the server's connections are still handling.
InFlight == {r \in Reqs : req[r].entry = "mux" /\ req[r].pc \notin {"idle", "done"}}

\* Shutdown returns nil once no connection is busy.
StopDone(c) ==
    /\ Running
    /\ stopPc[c] = "shutting"
    /\ InFlight = {}
    /\ StopReturns(c, "ret_nil")
    /\ UNCHANGED <<config, limiterVars, req, hooksGithub, srv, goPc,
                   serverStarted, ctxDone, sigPc, pidFile, proc>>
    /\ UNCHANGED toolVars

\* Shutdown returns the context's error when the grace period ends with a
\* connection still busy.
StopGraceOver(c) ==
    /\ Running
    /\ stopPc[c] = "shutting"
    /\ InFlight # {}
    /\ StopReturns(c, "ret_err")
    /\ UNCHANGED <<config, limiterVars, req, hooksGithub, srv, goPc,
                   serverStarted, ctxDone, sigPc, pidFile, proc>>
    /\ UNCHANGED toolVars

\* ------------------------------------------------ startServer (cmd/main.go)
\* SIGINT or SIGTERM: the signal goroutine cancels the context.
Signal ==
    /\ Running
    /\ sigPc = "wait"
    /\ ctxDone' = TRUE
    /\ sigPc' = "armed"
    /\ UNCHANGED <<config, mu, limiterVars, req, hooksGithub, srv, startPc, goPc,
                   serverStarted, stopPc, pidFile, proc>>
    /\ UNCHANGED toolVars

\* A second signal: "Forced shutdown".
SecondSignal ==
    /\ Running
    /\ sigPc = "armed"
    /\ sigPc' = "forced"
    /\ pidFile' = FALSE
    /\ proc' = "exit1"
    /\ UNCHANGED <<config, mu, limiterVars, req, hooksGithub, srv, startPc, goPc,
                   serverStarted, stopPc, ctxDone>>
    /\ UNCHANGED toolVars

\* Five seconds after the cancel: "Server took too long to stop".
TookTooLong ==
    /\ Running
    /\ sigPc = "armed"
    /\ sigPc' = "late"
    /\ pidFile' = FALSE
    /\ proc' = "exit1"
    /\ UNCHANGED <<config, mu, limiterVars, req, hooksGithub, srv, startPc, goPc,
                   serverStarted, stopPc, ctxDone>>
    /\ UNCHANGED toolVars

\* srv.Start(ctx) has returned: the PID file is removed and the process
\* exits, with 0 after a nil result and 1 after an error.
StartReturned ==
    /\ Running
    /\ startPc \in {"returned_nil", "returned_err"}
    /\ pidFile' = FALSE
    /\ proc' = IF startPc = "returned_nil" THEN "exit0" ELSE "exit1"
    /\ UNCHANGED <<config, mu, limiterVars, req, hooksGithub, srv, startPc, goPc,
                   serverStarted, stopPc, ctxDone, sigPc>>
    /\ UNCHANGED toolVars

\* What is left unchanged by the commands that only touch the PID file.
cmdFrame == <<config, mu, limiterVars, req, hooksGithub, srv, startPc, goPc,
              serverStarted, stopPc, hookFiles, managerHooks, github>>

\* startServer of another run: checkPID; with a readable PID file
\* "Server is already running" and exit 1.
CliCheckPID(p) ==
    /\ cli[p] \in {"idle", "refused", "exited"}
    /\ cli' = [cli EXCEPT ![p] = IF pidFile THEN "refused" ELSE "checked"]
    /\ returned' = [NoRet EXCEPT !.fn = "startServer"]
    /\ UNCHANGED <<ctxDone, sigPc, pidFile, proc>>
    /\ UNCHANGED cmdFrame

\* startServer of another run: os.WriteFile(pidFile, pid), then it serves.
CliWritePID(p) ==
    /\ cli[p] = "checked"
    /\ pidFile' = TRUE
    /\ cli' = [cli EXCEPT ![p] = "serving"]
    /\ returned' = [NoRet EXCEPT !.fn = "startServer"]
    /\ UNCHANGED <<ctxDone, sigPc, proc>>
    /\ UNCHANGED cmdFrame

\* startServer of another run: Start has returned, os.Remove(pidFile), exit.
CliExit(p) ==
    /\ cli[p] = "serving"
    /\ pidFile' = FALSE
    /\ cli' = [cli EXCEPT ![p] = "exited"]
    /\ returned' = [NoRet EXCEPT !.fn = "startServer"]
    /\ UNCHANGED <<ctxDone, sigPc, proc>>
    /\ UNCHANGED cmdFrame

\* stopServer: without a PID file "No server is currently running"; or
\* else SIGTERM to the process and os.Remove(pidFile) right after it.
StopServer ==
    /\ IF ~pidFile
       THEN UNCHANGED <<ctxDone, sigPc, pidFile>>
       ELSE /\ pidFile' = FALSE
            /\ IF Running /\ sigPc = "wait"
               THEN ctxDone' = TRUE /\ sigPc' = "armed"
               ELSE UNCHANGED <<ctxDone, sigPc>>
    /\ returned' = [NoRet EXCEPT !.fn = "stopServer"]
    /\ UNCHANGED <<cli, proc>>
    /\ UNCHANGED cmdFrame

\* ------------------------------------------- hooks.Manager (hooks.go)
serverVars == <<config, mu, limiterVars, req, lifeVars, github, cli>>

\* The script UpdateRepo writes for a hook.
Template(h) == IF h = "post-commit" THEN "# ggquick post-commit hook"
                                    ELSE "# ggquick post-push hook"

\* os.WriteFile(path, content, 0755): O_CREATE|O_TRUNC; the permission is
\* that of a file it creates, a file already there keeps its mode.
WriteFile(f, content, executable) ==
    [present |-> TRUE, exec |-> IF f.present THEN f.exec ELSE executable,
     content |-> content]

\* The files a hooks directory may hold before the manager is used on it.
FoundFiles == {[present |-> TRUE, exec |-> x, content |-> "# mine"] : x \in BOOLEAN}

\* The hooks directory as the caller finds it.
FoundHook(h, f) ==
    /\ returned = NoRet
    /\ ~hookFiles[h].present
    /\ hookFiles' = [hookFiles EXCEPT ![h] = f]
    /\ UNCHANGED <<managerHooks, returned, hooksGithub>>
    /\ UNCHANGED serverVars

\* hooks.New: a manager with no GitHub client and no hook on record.
NewManager ==
    /\ managerHooks' = {}
    /\ hooksGithub' = NoGitHub
    /\ returned' = [NoRet EXCEPT !.fn = "New"]
    /\ UNCHANGED hookFiles
    /\ UNCHANGED serverVars

\* Manager.UpdateRepo: writeHook for both hooks; a hook is put on record
\* whether its write failed or not; an error if any write failed.
UpdateRepo ==
    /\ \E fails \in SUBSET HookNames :
         /\ hookFiles' = [h \in HookNames |->
                            IF h \in fails THEN hookFiles[h]
                            ELSE WriteFile(hookFiles[h], Template(h), TRUE)]
         /\ returned' = [NoRet EXCEPT !.fn = "UpdateRepo", !.err = (fails # {})]
    /\ managerHooks' = managerHooks \cup HookNames
    /\ UNCHANGED hooksGithub
    /\ UNCHANGED serverVars

\* Manager.RemoveHooks: os.Remove for every hook on record; a file that is
\* not there is no error, any other failure is.
RemoveHooks ==
    /\ \E fails \in SUBSET {h \in managerHooks : hookFiles[h].present} :
         /\ hookFiles' = [h \in HookNames |->
                            IF h \in managerHooks \ fails THEN NoFile ELSE hookFiles[h]]
         /\ returned' = [NoRet EXCEPT !.fn = "RemoveHooks", !.err = (fails # {})]
    /\ UNCHANGED <<managerHooks, hooksGithub>>
    /\ UNCHANGED serverVars

\* server.New as startServer and the tests call it, on a process that has
\* done nothing yet: an error when the GitHubClient argument is the nil
\* interface, or else a Server that holds the argument.
NewServer ==
    /\ Running
    /\ startPc = "idle" /\ config = NilConfig
    /\ \A r \in Reqs : req[r].pc = "idle"
    /\ \E gh \in {NilInterface, GithubNew(""), GithubNew("token")} :
         IF gh = NilInterface
         THEN /\ returned' = [NoRet EXCEPT !.fn = "server.New", !.err = TRUE]
              /\ UNCHANGED github
         ELSE /\ returned' = [NoRet EXCEPT !.fn = "server.New"]
              /\ github' = gh
    /\ UNCHANGED <<hookFiles, managerHooks, hooksGithub, cli>>
    /\ UNCHANGED <<config, mu, limiterVars, req, lifeVars>>

\* ------------------------------------- Generator.GeneratePR (generator.go)
\* The loop over the lines of the completion: empty lines are skipped, the
\* first other line is the title, and from the next one on all lines, the
\* empty ones too, are the description.
RECURSIVE ParseLines(_, _, _)
ParseLines(lines, i, pr) ==
    IF i > Len(lines) THEN pr
    ELSE IF lines[i] = "" THEN ParseLines(lines, i + 1, pr)
    ELSE IF pr.Title = "" THEN ParseLines(lines, i + 1, [pr EXCEPT !.Title = lines[i]])
    ELSE [pr EXCEPT !.Description = SubSeq(lines, i, Len(lines))]

\* GeneratePR: an error when generateWithAI fails, or else the completion,
\* split at "\n", parsed into a PRContent.
GeneratePR(completion) ==
    IF completion.err THEN [err |-> TRUE, Title |-> "", Description |-> <<>>]
    ELSE ParseLines(completion.val, 1, [err |-> FALSE, Title |-> "", Description |-> <<>>])

\* A call of GeneratePR and what it returned.
CallGeneratePR(completion) ==
    /\ LET pr == GeneratePR(completion)
       IN  returned' = [fn |-> "GeneratePR", err |-> pr.err,
                        arg |-> IF completion.err THEN <<>> ELSE completion.val,
                        Title |-> pr.Title, Description |-> pr.Description]
    /\ UNCHANGED <<hookFiles, managerHooks, hooksGithub>>
    /\ UNCHANGED serverVars

\* --------------------------------------- Client.ParseRepoURL (client.go)
SSHPrefix == <<"git@github.com:">>

\* strings.Trim(s, "/")
RECURSIVE Trim(_, _)
Trim(s, c) ==
    IF s # <<>> /\ s[1] = c THEN Trim(Tail(s), c)
    ELSE IF s # <<>> /\ s[Len(s)] = c THEN Trim(SubSeq(s, 1, Len(s) - 1), c)
    ELSE s

\* url.Parse: the Path of scheme://host/path, or of a reference without a
\* scheme; an error for a reference that starts with a colon.
URLParse(s) ==
    IF s # <<>> /\ s[1] = ":" THEN [err |-> TRUE, Path |-> <<>>]
    ELSE IF Len(s) >= 4 /\ s[2] = Slash /\ s[3] = Slash
         THEN [err |-> FALSE, Path |-> SubSeq(s, 5, Len(s))]
         ELSE [err |-> FALSE, Path |-> s]

ParsedAs(owner, repo) == [owner |-> owner, repo |-> repo, err |-> FALSE]
ParseError == [owner |-> <<>>, repo |-> <<>>, err |-> TRUE]

ParseRepoURL(repoURL) ==
    LET url == TrimSuffix(repoURL, DotGit)
    IN  IF HasPrefix(url, SSHPrefix)
        THEN LET parts == Split(TrimPrefix(url, SSHPrefix), Slash)
             IN  IF Len(parts) # 2 THEN ParseError
                 ELSE ParsedAs(parts[1], parts[2])
        ELSE LET u == URLParse(url)
                 parts == Split(Trim(u.Path, Slash), Slash)
             IN  IF u.err \/ Len(parts) # 2 THEN ParseError
                 ELSE ParsedAs(parts[1], parts[2])

\* A call of ParseRepoURL and what it returned.
CallParseRepoURL(repoURL) ==
    /\ LET p == ParseRepoURL(repoURL)
       IN  returned' = [fn |-> "ParseRepoURL", arg |-> repoURL,
                        owner |-> p.owner, repo |-> p.repo, err |-> p.err]
    /\ UNCHANGED <<hookFiles, managerHooks, hooksGithub>>
    /\ UNCHANGED serverVars

\* ------------------------------------------------------------ the inputs
PushBody(ref, sha) == [NoBody EXCEPT !.valid = TRUE, !.ref = ref, !.sha = sha]
ConfigBody(url, owner, name) ==
    [NoBody EXCEPT !.valid = TRUE, !.url = url, !.owner = owner, !.name = name]

FeatureX   == <<"refs", "/", "heads", "/", "feature", "/", "x">>
NestedRef  == <<"refs", "/", "heads", "/", "refs", "/", "heads", "/", "y">>
BareRef    == <<"hotfix">>
WidgetsURL == <<"https:", "/", "/", "github.com", "/", "acme", "/", "widgets", ".git">>
GadgetsURL == <<"https:", "/", "/", "github.com", "/", "acme", "/", "gadgets">>
SlashURL   == <<"https:", "/", "/", "github.com", "/", "acme", "/">>
DiffURL    == "https://github.com/acme/widgets/compare/main...x.diff"
Content    == [Title |-> "Add x", Description |-> "Adds x."]
\* A body sent as plain text, its first line a commit SHA: no JSON.
TextBody(sha) == [NoBody EXCEPT !.ctype = "text/plain", !.sha = sha]

\* One push at a time by direct calls of the handlers, every kind of
\* payload and every outcome of every collaborator.
PushScope ==
    [entries |-> {"direct"}, limited |-> {FALSE},
     routes |-> {"/config", "/push"}, methods |-> {"POST", "GET"},
     xffs |-> {""}, remotes |-> {<<"10.0.0.1", "4001">>},
     pushBodies |-> {NoBody, TextBody("abc123")} \cup
                    {PushBody(ref, sha) : ref \in {FeatureX, NestedRef, BareRef, <<>>},
                                          sha \in {"abc123", ""}},
     configBodies |-> {NoBody, ConfigBody(WidgetsURL, <<>>, <<>>),
                       ConfigBody(GadgetsURL, <<"octo">>, <<"cat">>),
                       ConfigBody(WidgetsURL, <<"octo">>, <<>>),
                       ConfigBody(<<"widgets">>, <<>>, <<>>),
                       ConfigBody(<<"widgets", ".git">>, <<>>, <<"cat">>),
                       ConfigBody(SlashURL, <<>>, <<>>)},
     initOut |-> {Ok(""), Failed},
     branchOut |-> {Ok("develop"), Ok(""), Failed},
     diffOut |-> {Ok(DiffURL), Ok(""), Failed},
     msgOut |-> {Ok("fix: bug"), Ok(""), Failed},
     guideOut |-> {Ok("Be kind."), Ok(""), Failed},
     genOut |-> {Ok(Content), Ok(NoContent), Failed},
     createOut |-> {"ok", "create_err", "label_err"}]

\* The rate limiter at work: requests of one client through rateLimit, by
\* direct calls or through the mux, one payload and one outcome of each kind.
LimitScope ==
    [entries |-> {"mux", "direct"}, limited |-> {TRUE},
     routes |-> {"/config", "/push"}, methods |-> {"POST"},
     xffs |-> {""}, remotes |-> {<<"10.0.0.1", "4001">>},
     pushBodies |-> {PushBody(FeatureX, "abc123")},
     configBodies |-> {ConfigBody(WidgetsURL, <<>>, <<>>)},
     initOut |-> {Ok("")},
     branchOut |-> {Ok("develop")},
     diffOut |-> {Ok(DiffURL)},
     msgOut |-> {Ok("fix: bug")},
     guideOut |-> {Failed},
     genOut |-> {Ok(Content)},
     createOut |-> {"ok"}]

\* The server as the start command runs it: concurrent requests through
\* the mux.
ServeScope ==
    [LimitScope EXCEPT !.entries = {"mux"}, !.methods = {"POST", "GET"},
                       !.routes = {"/health", "/config", "/push"}]

Handle(r, S) ==
    \/ Arrive(r, S) \/ Forget(r)
    \/ ConfigDecode(r) \/ ConfigLock(r) \/ ConfigStore(r)
    \/ PushMethod(r) \/ PushRLock(r) \/ PushReadConfig(r) \/ PushDecode(r)
    \/ PushInitGitHub(r, S) \/ PushGetDefaultBranch(r, S) \/ PushGetDiff(r, S)
    \/ PushGetContributingGuide(r, S)
    \/ PushGeneratePR(r, S) \/ PushCreatePullRequest(r, S)

Starting ==
    \/ StartCall \/ StartLock \/ StartServe \/ GoStarted \/ GoListen \/ StartStarted

Life ==
    \/ Starting
    \/ GoListenFailed \/ GoServed \/ StartTimeout \/ StartCtxDone \/ StopCall
    \/ \E c \in Callers : StopLock(c) \/ StopShutdown(c) \/ StopDone(c) \/ StopGraceOver(c)
    \/ Signal \/ SecondSignal \/ TookTooLong \/ StartReturned

\* The pipeline of one push after another.
NextPush ==
    Handle(1, PushScope) \/ PushGetCommitMessage(1, PushScope) \/ ClientGone(1)

SpecPush == Init /\ [][NextPush]_vars

\* The rate limiter under the requests of one client.
NextLimit ==
    \/ Handle(1, LimitScope) \/ GetVisitor(1) \/ Allow(1)
    \/ Tick \/ StartCleanup \/ Starting

SpecLimit == Init /\ [][NextLimit]_vars

\* The server and the command that runs it.
Next ==
    \/ \E r \in Reqs : Handle(r, ServeScope) \/ GetVisitor(r) \/ Allow(r) \/ HandleHealth(r)
    \/ Life

Spec == Init /\ [][Next]_vars

\* The health check beside the configuration requests of one client, which
\* reach handleConfig through the mux or by direct calls, while Start
\* comes up.
HealthScope ==
    [LimitScope EXCEPT !.methods = {"POST", "GET"}, !.routes = {"/health", "/config"}]

NextHealth ==
    \/ \E r \in Reqs :
          \/ Arrive(r, HealthScope) \/ Forget(r)
          \/ GetVisitor(r) \/ Allow(r) \/ HandleHealth(r)
          \/ ConfigDecode(r) \/ ConfigLock(r) \/ ConfigStore(r)
    \/ Starting

SpecHealth == Init /\ [][NextHealth]_vars

\* The clients of the rate limiter: requests through the mux from two
\* ports of one address, two at a time, refused by the handler for their
\* method, while Start serves and its cleanup ticker fires.
KeyScope ==
    [LimitScope EXCEPT !.entries = {"mux"}, !.methods = {"GET"}, !.routes = {"/push"},
                       !.remotes = {<<"10.0.0.1", "4001">>, <<"10.0.0.1", "4002">>}]

KeySlots == {1, 2}

NextKeys ==
    \/ \E r \in KeySlots :
          \/ Arrive(r, KeyScope) \/ Forget(r)
          \/ GetVisitor(r) \/ Allow(r) \/ PushMethod(r)
    \/ StartCleanup \/ Starting

SpecKeys == Init /\ [][NextKeys]_vars

\* The repository URLs given to ParseRepoURL: HTTPS and SSH forms with and
\* without ".git", paths of one and of three segments, a path that ends
\* in "/", a word, and a reference url.Parse rejects.
RepoURLs ==
    {WidgetsURL, GadgetsURL, SlashURL,
     <<"git@github.com:", "acme", "/", "widgets">>,
     <<"git@github.com:", "acme", "/", "widgets", ".git">>,
     <<"git@github.com:", "acme", "/">>,
     <<"git@github.com:", "acme", "/", "widgets", "/", "tree">>,
     <<"https:", "/", "/", "github.com", "/", "invalid">>,
     <<"not-a-url">>,
     <<":", "/", "/", "github.com", "/", "acme", "/", "widgets">>}

\* The completions generateWithAI returns, as the lines bytes.Split makes
\* of them: up to MaxLines lines, empty ones among them.
MaxLines == 3
Completions ==
    {Failed} \cup
    {Ok(c) : c \in UNION {[1..n -> {"", "Add x", "Adds x."}] : n \in 1..MaxLines}}

\* The hooks manager on one hooks directory, and ParseRepoURL and
\* GeneratePR on their own.
NextTools ==
    \/ \E h \in HookNames, f \in FoundFiles : FoundHook(h, f)
    \/ NewManager
    \/ UpdateRepo
    \/ RemoveHooks
    \/ \E u \in RepoURLs : CallParseRepoURL(u)
    \/ \E c \in Completions : CallGeneratePR(c)

SpecTools == Init /\ [][NextTools]_vars

\* POST /config with nothing but a repo_url, for the URLs ParseRepoURL is
\* given, beside calls of ParseRepoURL.
ParseScope ==
    [PushScope EXCEPT !.routes = {"/config"}, !.methods = {"POST"},
                      !.configBodies = {ConfigBody(u, <<>>, <<>>) : u \in RepoURLs}]

NextParse ==
    \/ Arrive(1, ParseScope) \/ Forget(1)
    \/ ConfigDecode(1) \/ ConfigLock(1) \/ ConfigStore(1)
    \/ \E u \in RepoURLs : CallParseRepoURL(u)

SpecParse == Init /\ [][NextParse]_vars

\* Two handler goroutines at once: pushes and configurations of two
\* repositories, every collaborator answering.
RaceScope ==
    [PushScope EXCEPT !.methods = {"POST"},
                      !.pushBodies = {PushBody(FeatureX, "abc123")},
                      !.configBodies = {ConfigBody(WidgetsURL, <<>>, <<>>),
                                        ConfigBody(GadgetsURL, <<"octo">>, <<"cat">>)},
                      !.initOut = {Ok("")}, !.branchOut = {Ok("develop")},
                      !.diffOut = {Ok(DiffURL)}, !.msgOut = {Ok("fix: bug")},
                      !.guideOut = {Ok("")}, !.genOut = {Ok(Content)},
                      !.createOut = {"ok"}]

RaceSlots == {1, 2}

NextRace ==
    \E r \in RaceSlots : Handle(r, RaceScope)

SpecRace == Init /\ [][NextRace]_vars

\* One client, one connection, and the X-Forwarded-For values it sends or
\* leaves out; no refill, no cleanup.
SpoofScope ==
    [LimitScope EXCEPT !.entries = {"direct"}, !.methods = {"GET"},
                       !.routes = {"/push"},
                       !.xffs = {"", "203.0.113.7", "203.0.113.8"}]

NextSpoof ==
    \/ Arrive(1, SpoofScope) \/ Forget(1)
    \/ GetVisitor(1) \/ Allow(1) \/ PushMethod(1)

SpecSpoof == Init /\ [][NextSpoof]_vars

\* The PID file under the start and stop commands, beside the signals
\* and the exits of the process that wrote it first.
NextPid ==
    \/ \E p \in Invocations : CliCheckPID(p) \/ CliWritePID(p) \/ CliExit(p)
    \/ StopServer
    \/ Signal \/ SecondSignal \/ TookTooLong

SpecPid == Init /\ [][NextPid]_vars

\* Servers made with and without a GitHub client, and pushes to them.
NextNew ==
    NewServer \/ Handle(1, RaceScope)

SpecNew == Init /\ [][NextNew]_vars

\* =============================================================== claims
CallsTo(r, fn) == {i \in DOMAIN req[r].calls : req[r].calls[i].fn = fn}
Answered(r) == req[r].pc = "done"

\* C1: whenever handlePush invokes GeneratePR, the RepoInfo it passes has a
\* non-empty CommitMessage or a non-empty diff reference in Changes,
\* whatever GetDiff and GetCommitMessage returned.
C1_NonEmptyContext ==
    \A r \in Reqs : \A i \in CallsTo(r, "GeneratePR") :
        LET info == req[r].calls[i].x
        IN  \/ info.CommitMessage # ""
            \/ \E b \in DOMAIN info.Changes :
                 \E k \in DOMAIN info.Changes[b].Modified :
                    info.Changes[b].Modified[k] # ""

\* C2: when GetDefaultBranch fails the push goes on: GetDiff is asked for
\* the diff against "main", GeneratePR is called before any answer, and
\* CreatePullRequest, once GeneratePR has succeeded, gets "main" as base.
C2_MainFallback ==
    \A r \in Reqs : \A i \in CallsTo(r, "GetDefaultBranch") :
        req[r].calls[i].err =>
          /\ req[r].defaultBranch = "main"
          /\ \A j \in CallsTo(r, "GetDiff") : req[r].calls[j].x = "main"
          /\ \A j \in CallsTo(r, "CreatePullRequest") :
                req[r].calls[j].x.BaseBranch = "main"
          /\ Answered(r) =>
                /\ CallsTo(r, "GetDiff") # {}
                /\ CallsTo(r, "GeneratePR") # {}
                /\ (\E j \in CallsTo(r, "GeneratePR") : ~req[r].calls[j].err)
                      => CallsTo(r, "CreatePullRequest") # {}

C2_Witness ==
    \E r \in Reqs :
        /\ \E i \in CallsTo(r, "GetDefaultBranch") : req[r].calls[i].err
        /\ req[r].status = StatusOK
        /\ req[r].pr.made /\ req[r].pr.base = "main"

\* C3: when GeneratePR returns an error, CreatePullRequest is not called
\* for that push, no pull request is made, and the answer is 500.
C3_GenerateErrorAborts ==
    \A r \in Reqs : \A i \in CallsTo(r, "GeneratePR") :
        req[r].calls[i].err =>
          /\ CallsTo(r, "CreatePullRequest") = {}
          /\ ~req[r].pr.made
          /\ Answered(r)
          /\ req[r].status = StatusInternalServerError

C3_Witness ==
    \E r \in Reqs :
        /\ \E i \in CallsTo(r, "GeneratePR") : req[r].calls[i].err
        /\ req[r].status = StatusInternalServerError

\* C4: /push answers 200 only after CreatePullRequest has returned without
\* error, so that a pull request exists; an error of CreatePullRequest is
\* answered with a 5xx.
C4_OkMeansCreated ==
    \A r \in Reqs : req[r].route = "/push" =>
        /\ req[r].status = StatusOK =>
              /\ req[r].calls # <<>>
              /\ req[r].calls[Len(req[r].calls)].fn = "CreatePullRequest"
              /\ ~req[r].calls[Len(req[r].calls)].err
              /\ req[r].pr.made
        /\ \A i \in CallsTo(r, "CreatePullRequest") :
              req[r].calls[i].err => req[r].status >= 500

C4_Witness ==
    \E r \in Reqs :
        /\ req[r].route = "/push" /\ req[r].status = StatusOK
        /\ req[r].pr.made /\ req[r].pr.labelled

\* C5: CreatePullRequest gets the payload's ref without its "refs/heads/"
\* prefix as Branch, the default branch GetDefaultBranch returned ("main"
\* when it failed) as BaseBranch, the title and description GeneratePR
\* returned, and the labels {"automated-pr"}.
C5_PullRequestOptions ==
    \A r \in Reqs : \A i \in CallsTo(r, "CreatePullRequest") :
        LET opts == req[r].calls[i].x
            ref  == req[r].body.ref
        IN  /\ IF HasPrefix(ref, RefsHeads)
               THEN RefsHeads \o opts.Branch = ref
               ELSE opts.Branch = ref
            /\ \E j \in CallsTo(r, "GetDefaultBranch") :
                 /\ j < i
                 /\ opts.BaseBranch = IF req[r].calls[j].err THEN "main"
                                      ELSE req[r].calls[j].ret
            /\ \E j \in CallsTo(r, "GeneratePR") :
                 /\ j < i
                 /\ opts.Title = req[r].calls[j].ret.Title
                 /\ opts.Description = req[r].calls[j].ret.Description
            /\ opts.Labels = {"automated-pr"}

C5_Witness ==
    \E r \in Reqs : \E i \in CallsTo(r, "CreatePullRequest") :
        /\ req[r].body.ref = NestedRef
        /\ req[r].calls[i].x.Branch = <<"refs", "/", "heads", "/", "y">>
        /\ req[r].calls[i].x.BaseBranch = "develop"
        /\ req[r].calls[i].x.Title = "Add x"

C7_BurstLimit ==
    /\ [](\A b \in DOMAIN buckets :
            /\ buckets[b].admitted <= Burst
            /\ buckets[b].idle >= Burst => buckets[b].tokens = Burst)
    /\ [][\A r \in Reqs :
            (/\ req[r].pc = "allow"
             /\ req'[r].pc # "allow"
             /\ buckets[req[r].lim].admitted = Burst)
            => req'[r].pc = "done" /\ req'[r].status = StatusTooManyRequests]_vars

C7_Witness ==
    \E r \in Reqs :
        /\ req[r].status = StatusTooManyRequests
        /\ ClientKey(req[r]) \in DOMAIN visitors
        /\ buckets[visitors[ClientKey(req[r])]].admitted = Burst

\* C8: a request the rate limiter rejects changes no bucket's tokens, is
\* answered 429 and does not reach its handler: the configuration, the
\* lock and the hooks manager stay as they are and no collaborator is called.
C8_RejectedFrame ==
    /\ [](\A r \in Reqs : req[r].status = StatusTooManyRequests =>
            /\ req[r].pc = "done"
            /\ req[r].calls = <<>>
            /\ ~req[r].pr.made)
    /\ [][\A r \in Reqs :
            (req[r].pc = "allow" /\ req'[r].status = StatusTooManyRequests) =>
              /\ \A b \in DOMAIN buckets' : buckets'[b].tokens = buckets[b].tokens
              /\ \A ip \in DOMAIN visitors : visitors[ip] \in DOMAIN buckets'
              /\ visitors' = visitors
              /\ config' = config
              /\ mu' = mu
              /\ hooksGithub' = hooksGithub]_vars

C8_Witness ==
    \E r \in Reqs :
        /\ req[r].status = StatusTooManyRequests
        /\ req[r].route = "/config" /\ req[r].body.valid
        /\ ~config.set
        /\ ClientKey(req[r]) \in DOMAIN visitors
        /\ buckets[visitors[ClientKey(req[r])]].tokens = 0

\* C9: after the context is cancelled Start shuts the server down and
\* returns: once Start, serving, has seen the cancellation and called Stop,
\* the lock Stop asks for is free, or held by a handler or by another call
\* of Stop, which give it back.
C9_StartShutsDown ==
    (Running /\ goPc = "serving" /\ startPc = "stopping" /\ stopPc["start"] = "lock")
        => CanLock \/ mu.writer \in {"handleConfig", "Stop"} \/ mu.readers # {}

\* C10: while Start serves and no shutdown has begun, a request the rate
\* limiter has admitted gets the configuration lock: the lock is free for
\* it, or held by another handler, which gives it back.
C10_RequestsGetLock ==
    \A r \in Reqs :
        (/\ Running /\ goPc = "serving" /\ startPc = "loop"
         /\ \A c \in Callers : stopPc[c] \in {"idle", "ret_nil", "ret_err"}
         /\ req[r].entry = "mux") =>
            /\ req[r].pc = "p_rlock" => CanRLock \/ mu.writer = "handleConfig"
            /\ req[r].pc = "c_lock" =>
                   CanLock \/ mu.writer = "handleConfig" \/ mu.readers # {}

\* C11: a /health request the server has accepted is answered 200 whatever
\* the state: it does not pass through the rate limiter, it can be answered
\* at once whoever holds s.mu and whatever the stored configuration and the
\* buckets are, and it is never among the holders of s.mu.
C11_HealthAlwaysOK ==
    \A r \in Reqs :
        (Running /\ req[r].entry = "mux" /\ req[r].route = "/health") =>
            /\ ~req[r].limited
            /\ req[r].pc \in {"handler", "done"}
            /\ req[r].pc = "handler" => ENABLED HandleHealth(r)
            /\ req[r].pc = "done" => req[r].status = StatusOK
            /\ r \notin mu.readers

\* A GET /health answered 200 while its client's bucket is empty, no
\* configuration is stored and Start holds s.mu.
C11_Witness ==
    \E r \in Reqs :
        /\ req[r].entry = "mux" /\ req[r].route = "/health" /\ req[r].method = "GET"
        /\ req[r].pc = "done" /\ req[r].status = StatusOK
        /\ ClientKey(req[r]) \in DOMAIN visitors
        /\ buckets[visitors[ClientKey(req[r])]].tokens = 0
        /\ ~config.set
        /\ mu.writer = "Start"

\* C12: the stored configuration is absent or has a non-empty owner and a
\* non-empty name, whatever bodies were posted to /config.
C12_OwnerNameNonEmpty ==
    config.set => config.Owner # <<>> /\ config.Name # <<>>

\* A POST /config handleConfig has answered 200.
ConfigStored(r) ==
    /\ req[r].route = "/config" /\ req[r].method = "POST"
    /\ req[r].pc = "done" /\ req[r].status = StatusOK

\* A /config body that is no JSON, or that lacks an owner or a name and has
\* a repo_url without two "/"-separated segments once ".git" is stripped.
BadConfigBody(body) ==
    \/ ~body.valid
    \/ /\ body.owner = <<>> \/ body.name = <<>>
       /\ Len(Split(TrimSuffix(body.url, DotGit), Slash)) < 2

\* C13: a POST /config with such a body never gets to the store: once out
\* of the handler it has been answered 400, and the step of the handler
\* that answers it leaves the stored configuration as it was.
C13_BadConfigRejected ==
    /\ [](\A r \in Reqs :
            (/\ req[r].route = "/config" /\ req[r].method = "POST"
             /\ BadConfigBody(req[r].body)
             /\ req[r].pc \notin {"idle", "limit", "handler"}
             /\ req[r].status # StatusTooManyRequests) =>
                req[r].pc = "done" /\ req[r].status = StatusBadRequest)
    /\ [][\A r \in Reqs :
            (/\ req[r].route = "/config" /\ req[r].method = "POST"
             /\ BadConfigBody(req[r].body)
             /\ req[r].pc = "handler" /\ req'[r].pc # "handler") =>
                /\ config' = config
                /\ req'[r].pc = "done" /\ req'[r].status = StatusBadRequest]_vars

\* A URL without two segments answered 400 while a configuration is stored.
C13_Witness ==
    \E r \in Reqs :
        /\ req[r].route = "/config" /\ req[r].method = "POST"
        /\ req[r].body.valid /\ BadConfigBody(req[r].body)
        /\ req[r].pc = "done" /\ req[r].status = StatusBadRequest
        /\ config.set

\* C14: a POST /config answered 200 carries a JSON body with the status
\* "config_stored" and the owner and name just stored, the answer for which
\* handleResponse of the apply command returns nil.
C14_ConfigStoredReply ==
    \A r \in Reqs :
        ConfigStored(r) =>
            /\ req[r].reply.json
            /\ req[r].reply.status = "config_stored"
            /\ req[r].reply.owner = req[r].cfg.Owner
            /\ req[r].reply.name = req[r].cfg.Name
            /\ handleResponse(req[r].status, req[r].reply) = "nil"

\* C15: a POST /config answered 200 has called GetDefaultBranch for the
\* configured repository.
C15_ConfigResolvesBranch ==
    \A r \in Reqs :
        ConfigStored(r) =>
            \E i \in CallsTo(r, "GetDefaultBranch") :
                /\ req[r].calls[i].owner = req[r].cfg.Owner
                /\ req[r].calls[i].repo = req[r].cfg.Name
                /\ ~req[r].calls[i].err

\* C16: the step that stores a configuration makes the store exactly the
\* normalized configuration of that request, and a store that holds a
\* configuration holds one ever after.
C16_StoredWholesale ==
    /\ [][\A r \in Reqs :
            (req[r].pc = "c_store" /\ req'[r].pc = "done") =>
                /\ config' = ParseConfig(req[r].body).cfg
                /\ config'.RepoURL = req[r].body.url]_vars
    /\ [][config.set => config'.set]_vars

\* A configuration stored over an earlier one of another owner, under
\* which a push had set up the GitHub client.
C16_Witness ==
    \E r \in Reqs :
        /\ ConfigStored(r)
        /\ config = ParseConfig(req[r].body).cfg
        /\ hooksGithub.set /\ hooksGithub.owner # config.Owner
        /\ hooksGithub.repo # config.Name

\* C17: the step that stores a configuration stores the owner and name of
\* the body when it has both, and else the second-to-last and the last
\* "/"-separated segment of repo_url without a trailing ".git":
\* https://github.com/acme/widgets.git gives acme and widgets.
C17_OwnerNameDerived ==
    [][\A r \in Reqs :
         (req[r].pc = "c_store" /\ req'[r].pc = "done") =>
            LET b == req[r].body
                parts == Split(TrimSuffix(b.url, DotGit), Slash)
            IN  /\ (b.owner # <<>> /\ b.name # <<>>) =>
                       config'.Owner = b.owner /\ config'.Name = b.name
                /\ (b.owner = <<>> \/ b.name = <<>>) =>
                       /\ config'.Owner = parts[Len(parts) - 1]
                       /\ config'.Name = parts[Len(parts)]
                /\ (b.url = WidgetsURL /\ (b.owner = <<>> \/ b.name = <<>>)) =>
                       config'.Owner = <<"acme">> /\ config'.Name = <<"widgets">>]_vars

\* A body with an owner but no name: both were taken from the URL.
C17_Witness ==
    \E r \in Reqs :
        /\ ConfigStored(r)
        /\ req[r].body.url = WidgetsURL
        /\ req[r].body.owner = <<"octo">> /\ req[r].body.name = <<>>
        /\ config.Owner = <<"acme">> /\ config.Name = <<"widgets">>

\* A POST /push that found a configuration stored.
PushConfigured(r) ==
    req[r].route = "/push" /\ req[r].method = "POST" /\ req[r].cfg.set

\* C18: a POST /push whose Content-Type is not application/json is not
\* rejected: its first line is the SHA of a push the pipeline runs for.
C18_TextPushAccepted ==
    \A r \in Reqs :
        (PushConfigured(r) /\ req[r].body.ctype # JSON /\ Answered(r)) =>
            /\ req[r].status # StatusBadRequest
            /\ CallsTo(r, "InitGitHub") # {}

\* C19: a POST /push whose payload has no ref calls neither GeneratePR nor
\* CreatePullRequest, and is answered with a success status.
C19_NonPushIgnored ==
    \A r \in Reqs :
        (PushConfigured(r) /\ req[r].body.valid /\ req[r].body.ref = <<>>) =>
            /\ CallsTo(r, "GeneratePR") = {}
            /\ CallsTo(r, "CreatePullRequest") = {}
            /\ Answered(r) => req[r].status = StatusOK

\* The collaborator calls of handlePush in the order of its statements.
Steps == <<"InitGitHub", "GetDefaultBranch", "GetDiff", "GetCommitMessage",
           "GetContributingGuide", "GeneratePR", "CreatePullRequest">>
Rank(fn) == CHOOSE i \in DOMAIN Steps : Steps[i] = fn

\* C20: the calls of one push come in the fixed order default branch,
\* change context (GetDiff, then GetCommitMessage), contributing guide,
\* GeneratePR, CreatePullRequest, none of them twice; GeneratePR comes after
\* the three steps before it and CreatePullRequest after GeneratePR; and no
\* call follows a failed GeneratePR or CreatePullRequest.
C20_FixedOrderNoRetry ==
    \A r \in Reqs :
        LET calls == req[r].calls
            Called(fn, i) == \E k \in 1..(i - 1) : calls[k].fn = fn
        IN  /\ \A i, j \in DOMAIN calls :
                  i < j => Rank(calls[i].fn) < Rank(calls[j].fn)
            /\ \A i \in DOMAIN calls :
                  /\ calls[i].fn = "GeneratePR" =>
                        /\ Called("GetDefaultBranch", i) /\ Called("GetDiff", i)
                        /\ Called("GetContributingGuide", i)
                  /\ calls[i].fn = "CreatePullRequest" => Called("GeneratePR", i)
                  /\ (calls[i].fn \in {"GeneratePR", "CreatePullRequest"} /\ calls[i].err)
                        => i = Len(calls) /\ req[r].pc = "done"

\* A push answered after GeneratePR failed: one call of GeneratePR, the
\* last of the push, and none of CreatePullRequest.
C20_Witness ==
    \E r \in Reqs :
        /\ Answered(r) /\ req[r].status = StatusInternalServerError
        /\ Cardinality(CallsTo(r, "GeneratePR")) = 1
        /\ Cardinality(CallsTo(r, "GetCommitMessage")) = 1
        /\ req[r].calls[Len(req[r].calls)].fn = "GeneratePR"
        /\ req[r].calls[Len(req[r].calls)].err

\* C21: every collaborator call of a push gets the request's context: a
\* call made once the client is gone comes back with an error from a
\* collaborator that honours its context, and a push whose client is gone
\* before a pull request exists never gets one.
C21_ContextPropagated ==
    [][\A r \in Reqs :
         req[r].gone =>
            /\ ~req[r].pr.made => ~req'[r].pr.made
            /\ \A i \in DOMAIN req'[r].calls :
                  (i > Len(req[r].calls) /\ req'[r].calls[i].fn # "InitGitHub")
                      => req'[r].calls[i].err]_vars

\* The client went away, CreatePullRequest was reached all the same and
\* made no pull request.
C21_Witness ==
    \E r \in Reqs :
        /\ req[r].gone /\ Answered(r)
        /\ CallsTo(r, "CreatePullRequest") # {}
        /\ ~req[r].pr.made
        /\ req[r].status = StatusInternalServerError

\* C22: when GetDiff has failed, GetCommitMessage is called next with the
\* SHA of the payload; the RepoInfo GeneratePR then gets has the message it
\* returned as CommitMessage and in the change entry of the pushed branch,
\* and the generic message only when GetCommitMessage failed too.
C22_CommitMessageFallback ==
    \A r \in Reqs : \A d \in CallsTo(r, "GetDiff") :
        LET calls == req[r].calls
        IN  calls[d].err =>
              /\ req[r].pc # "p_msg" =>
                    /\ d + 1 \in CallsTo(r, "GetCommitMessage")
                    /\ calls[d + 1].x = req[r].body.sha
              /\ \A g \in CallsTo(r, "GeneratePR") :
                    LET info == calls[g].x
                        msg == IF calls[d + 1].err THEN GenericMessage
                               ELSE calls[d + 1].ret
                    IN  /\ info.CommitMessage = msg
                        /\ DOMAIN info.Changes = {req[r].branchName}
                        /\ \E k \in DOMAIN info.Changes[req[r].branchName].Modified :
                              info.Changes[req[r].branchName].Modified[k] = msg

\* GeneratePR was given the message GetCommitMessage returned for the SHA.
C22_Witness ==
    \E r \in Reqs : \E d \in CallsTo(r, "GetDiff") : \E g \in CallsTo(r, "GeneratePR") :
        /\ req[r].calls[d].err
        /\ ~req[r].calls[d + 1].err
        /\ req[r].calls[d + 1].x = "abc123"
        /\ req[r].calls[d + 1].ret = "fix: bug"
        /\ req[r].calls[g].x.CommitMessage = "fix: bug"

\* The address of a socket address (host, port), and the keys of the
\* visitor map that are socket addresses: those of requests that had no
\* X-Forwarded-For header.
HostOf(remote) == remote[1]
SocketKeys == {k \in DOMAIN visitors : Len(k) = 2}

\* C23: requests without a forwarded-for header that come from one client
\* address are charged to one bucket, whatever their source ports.
C23_KeyIsClientIP ==
    \A k1, k2 \in SocketKeys :
        HostOf(k1) = HostOf(k2) => visitors[k1] = visitors[k2]

\* C24: the cleanup tick leaves the visitor map empty, and a request whose
\* key is not in the map gets a bucket of its own, new and full, which the
\* map then holds for its key.
C24_CleanupEmptiesMap ==
    /\ [][StartCleanup => DOMAIN visitors' = {}]_vars
    /\ [][\A r \in Reqs :
            (/\ req[r].pc = "limit" /\ req'[r].pc = "allow"
             /\ ClientKey(req[r]) \notin DOMAIN visitors) =>
                /\ req'[r].lim \notin DOMAIN buckets
                /\ buckets'[req'[r].lim].tokens = Burst
                /\ visitors'[ClientKey(req[r])] = req'[r].lim]_vars

\* A request was refused on an empty bucket; the map was cleaned up since,
\* and the next request of the same key holds a full bucket.
C24_Witness ==
    \E r1, r2 \in Reqs :
        /\ req[r1].pc = "done" /\ req[r1].status = StatusTooManyRequests
        /\ req[r2].pc = "allow"
        /\ ClientKey(req[r2]) = ClientKey(req[r1])
        /\ buckets[req[r2].lim].tokens = Burst
        /\ DOMAIN visitors = {ClientKey(req[r2])}

\* C25: the buckets of two keys are two buckets; a request's pass through
\* the rate limiter leaves the map entry and the bucket of every other key
\* as they are, and a request is refused only on a bucket of its own key
\* that is empty.
C25_BucketsIndependent ==
    /\ [](\A k1, k2 \in DOMAIN visitors : k1 # k2 => visitors[k1] # visitors[k2])
    /\ [][\A r \in Reqs :
            (req[r].pc \in {"limit", "allow"} /\ req'[r] # req[r]) =>
                /\ \A k \in (DOMAIN visitors) \ {ClientKey(req[r])} :
                      /\ k \in DOMAIN visitors'
                      /\ visitors'[k] = visitors[k]
                      /\ buckets'[visitors[k]] = buckets[visitors[k]]
                /\ req'[r].status = StatusTooManyRequests =>
                      /\ buckets[req[r].lim].tokens = 0
                      /\ \A k \in DOMAIN visitors :
                            visitors[k] = req[r].lim => k = ClientKey(req[r])]_vars

\* One key's bucket is empty and a request of the other key was admitted.
C25_Witness ==
    \E r \in Reqs : \E k \in DOMAIN visitors :
        /\ k # ClientKey(req[r])
        /\ buckets[visitors[k]].tokens = 0
        /\ req[r].limited /\ req[r].pc = "done"
        /\ req[r].status = StatusMethodNotAllowed
        /\ ClientKey(req[r]) \in DOMAIN visitors
        /\ buckets[visitors[ClientKey(req[r])]].tokens = Burst - 1

\* C26: whatever GetContributingGuide returns, GeneratePR is the next call
\* of the push, and the RepoInfo it gets holds the guide that came without
\* error, as it came, and no guide text otherwise.
C26_GuideBestEffort ==
    \A r \in Reqs : \A i \in CallsTo(r, "GetContributingGuide") :
        LET calls == req[r].calls
        IN  /\ req[r].pc # "p_gen" => i + 1 \in CallsTo(r, "GeneratePR")
            /\ i + 1 \in CallsTo(r, "GeneratePR") =>
                  calls[i + 1].x.ContributingFile =
                      IF calls[i].err THEN "" ELSE calls[i].ret

\* A push answered 200 although its GetContributingGuide had failed, and
\* one whose guide reached GeneratePR.
C26_Witness ==
    \E r \in Reqs : \E i \in CallsTo(r, "GetContributingGuide") :
        /\ Answered(r) /\ req[r].status = StatusOK
        /\ req[r].calls[i].err
        /\ req[r].calls[i + 1].fn = "GeneratePR"
        /\ req[r].calls[i + 1].x.ContributingFile = ""

\* C27: a request to /push or /config whose method is not POST is answered
\* 405 by its handler, which leaves the stored configuration, the lock and
\* the hooks manager as they are and calls no collaborator.
C27_MethodNotAllowed ==
    /\ [](\A r \in Reqs :
            (/\ req[r].route \in {"/push", "/config"} /\ req[r].method # "POST"
             /\ req[r].pc \notin {"idle", "limit", "allow", "handler"}
             /\ req[r].status # StatusTooManyRequests) =>
                /\ req[r].pc = "done" /\ req[r].status = StatusMethodNotAllowed
                /\ req[r].calls = <<>> /\ ~req[r].pr.made)
    /\ [][\A r \in Reqs :
            (/\ req[r].route \in {"/push", "/config"} /\ req[r].method # "POST"
             /\ req[r].pc = "handler" /\ req'[r].pc # "handler") =>
                /\ req'[r].pc = "done" /\ req'[r].status = StatusMethodNotAllowed
                /\ config' = config /\ mu' = mu /\ hooksGithub' = hooksGithub]_vars

\* A GET /push answered 405 on a configured server.
C27_Witness ==
    \E r \in Reqs :
        /\ req[r].route = "/push" /\ req[r].method = "GET"
        /\ req[r].pc = "done" /\ req[r].status = StatusMethodNotAllowed
        /\ config.set

\* C28: after an UpdateRepo that returned no error both hook files are
\* there, non-empty and executable; a RemoveHooks that follows it and
\* returns no error leaves neither file; a RemoveHooks that finds none of
\* its files returns no error.
C28_HooksInstalledAndRemoved ==
    /\ []((returned.fn = "UpdateRepo" /\ ~returned.err) =>
             \A h \in HookNames : /\ hookFiles[h].present
                                  /\ hookFiles[h].content # ""
                                  /\ hookFiles[h].exec)
    /\ [][(/\ returned.fn = "UpdateRepo"
           /\ returned'.fn = "RemoveHooks" /\ ~returned'.err) =>
              \A h \in HookNames : ~hookFiles'[h].present]_vars
    /\ [][(/\ returned.fn # "RemoveHooks" /\ returned'.fn = "RemoveHooks"
           /\ \A h \in HookNames : ~hookFiles[h].present) =>
              ~returned'.err]_vars

IsSSH(repoURL)   == HasPrefix(repoURL, SSHPrefix)
IsHTTPS(repoURL) == HasPrefix(repoURL, <<"https:", Slash, Slash>>) /\ Len(repoURL) >= 5

\* ParseRepoURL's input without a trailing ".git" and without what stands
\* before the path (git@github.com: or https://host/), split at "/".
PathParts(repoURL) ==
    LET url == TrimSuffix(repoURL, DotGit)
    IN  IF IsSSH(url) THEN Split(TrimPrefix(url, SSHPrefix), Slash)
        ELSE IF IsHTTPS(url) THEN Split(SubSeq(url, 6, Len(url)), Slash)
        ELSE Split(url, Slash)

NonEmpty(part) == part # <<>>
Segments(repoURL) == SelectSeq(PathParts(repoURL), NonEmpty)

\* C29: ParseRepoURL returns the two segments of a path that is
\* owner/repo, with or without ".git", and an error for every input whose
\* path does not have exactly two segments.
C29_ParseRepoURL ==
    returned.fn = "ParseRepoURL" =>
        LET segs == Segments(returned.arg)
        IN  /\ Len(segs) # 2 => returned.err
            /\ (/\ IsSSH(returned.arg) \/ IsHTTPS(returned.arg)
                /\ Len(segs) = 2 /\ PathParts(returned.arg) = segs) =>
                  /\ ~returned.err
                  /\ returned.owner = segs[1] /\ returned.repo = segs[2]

\* C30: a pull request is made in the repository of the configuration its
\* push read under the read lock, whatever other requests did meanwhile.
C30_PRInSnapshotRepo ==
    \A r \in Reqs :
        req[r].pr.made => /\ req[r].pr.owner = req[r].cfg.Owner
                          /\ req[r].pr.repo = req[r].cfg.Name

\* C31: a push answered 500 after its CreatePullRequest call has made no
\* pull request: CreatePullRequest returns an error only when there is none.
C31_FailureMeansNoPR ==
    \A r \in Reqs :
        (/\ Answered(r) /\ req[r].status = StatusInternalServerError
         /\ CallsTo(r, "CreatePullRequest") # {}) => ~req[r].pr.made

\* C32: serverStarted is never closed a second time, so a ListenAndServe
\* that fails makes Start return an error and does not crash the process;
\* Start does not report the server as started once its listener failed.
C32_StartedClosedOnce ==
    /\ [][serverStarted => proc' # "panic"]_vars
    /\ [](goPc = "failed" => proc = "running" \/ startPc = "returned_err")
    /\ [](goPc = "failed" => startPc \notin {"loop", "stopping", "returned_nil"})

\* C33: a call of Stop never waits for s.mu without end: the lock is free,
\* or its holder gives it back (a handler, another Stop, or a Start that
\* has not yet begun to serve and may still return); and Stop on a server
\* that was never started returns nil and changes nothing but the lock.
C33_StopTerminates ==
    /\ [](\A c \in Callers :
            (Running /\ stopPc[c] = "lock") =>
                \/ CanLock
                \/ mu.writer \in {"handleConfig", "Stop"}
                \/ mu.readers # {}
                \/ mu.writer = "Start" /\ startPc \in {"setup", "select"})
    /\ [][\A c \in Callers :
            (stopPc[c] = "locked" /\ srv = "nil" /\ stopPc'[c] # "locked") =>
                /\ stopPc'[c] = "ret_nil"
                /\ UNCHANGED <<config, limiterVars, req, srv, goPc, serverStarted,
                               pidFile, proc>>]_vars

\* The collaborator calls that take the owner and the name of the
\* repository as arguments.
RepoCalls(r) ==
    {i \in DOMAIN req[r].calls :
        req[r].calls[i].fn \in {"InitGitHub", "GetDefaultBranch", "GetDiff",
                                "GetCommitMessage", "GetContributingGuide"}}

\* C34: all the calls of one push name the same repository, and it is the
\* owner and name one /config request stored, not the owner of one and the
\* name of another.
C34_OneSnapshot ==
    \A r \in Reqs : \A i \in RepoCalls(r) :
        LET c == req[r].calls[i]
        IN  /\ \A j \in RepoCalls(r) : /\ req[r].calls[j].owner = c.owner
                                       /\ req[r].calls[j].repo = c.repo
            /\ \E b \in RaceScope.configBodies :
                  /\ ParseConfig(b).cfg.Owner = c.owner
                  /\ ParseConfig(b).cfg.Name = c.repo

\* A push that went on to GetContributingGuide after another request had
\* stored the configuration of another repository.
C34_Witness ==
    \E r \in Reqs :
        /\ CallsTo(r, "GetContributingGuide") # {}
        /\ config.Owner # req[r].cfg.Owner
        /\ \E i \in CallsTo(r, "InitGitHub") : req[r].calls[i].owner # config.Owner

\* C35: every bucket holds between 0 and Burst tokens, and what it holds
\* and what it has admitted since the last refill are Burst at most; a
\* request whose key is in the map gets the bucket the map holds, so two
\* requests of one new key with no cleanup between them share one bucket.
C35_OneBucketPerKey ==
    /\ [](\A b \in DOMAIN buckets :
            /\ buckets[b].tokens \in 0..Burst
            /\ buckets[b].tokens + buckets[b].admitted <= Burst)
    /\ [][\A r1, r2 \in Reqs :
            (/\ r1 # r2
             /\ req[r1].pc = "allow" /\ ClientKey(req[r1]) \in DOMAIN visitors
             /\ visitors[ClientKey(req[r1])] = req[r1].lim
             /\ req[r2].pc = "limit" /\ ClientKey(req[r2]) = ClientKey(req[r1])
             /\ req'[r2].pc = "allow") =>
                /\ req'[r2].lim = req[r1].lim
                /\ buckets' = buckets /\ visitors' = visitors]_vars

\* Two requests of one key hold the same bucket, which has one token left.
C35_Witness ==
    \E r1, r2 \in Reqs :
        /\ r1 # r2
        /\ req[r1].pc = "allow" /\ req[r2].pc = "allow"
        /\ ClientKey(req[r1]) = ClientKey(req[r2])
        /\ req[r1].lim = req[r2].lim
        /\ buckets[req[r1].lim].tokens = 1

\* C36: a POST /config with only a repo_url is answered as ParseRepoURL
\* judges the URL: 400 for a URL it rejects, and for one it accepts the
\* owner and name it returns are the ones stored.
C36_ConfigAgreesWithParse ==
    \A r \in Reqs :
        (/\ req[r].route = "/config" /\ req[r].method = "POST" /\ Answered(r)
         /\ req[r].body.valid /\ req[r].body.owner = <<>> /\ req[r].body.name = <<>>
         /\ returned.fn = "ParseRepoURL" /\ returned.arg = req[r].body.url) =>
            IF returned.err THEN req[r].status = StatusBadRequest
            ELSE /\ req[r].status = StatusOK
                 /\ req[r].cfg.Owner = returned.owner
                 /\ req[r].cfg.Name = returned.repo

\* C37: the GitHub client a Server holds is never a nil pointer, so no
\* handler dies calling a method on it.
C37_NoMissingCollaborator ==
    /\ github # NilInterface /\ github.ptr
    /\ \A r \in Reqs : req[r].pc # "panicked"

\* The requests admitted since the last refill, over the buckets in bs.
RECURSIVE Admissions(_)
Admissions(bs) ==
    IF bs = {} THEN 0
    ELSE LET b == CHOOSE x \in bs : TRUE
         IN  buckets[b].admitted + Admissions(bs \ {b})

\* C38: with no refill and no cleanup the requests admitted for one client
\* (one remote address) are Burst at most, whatever X-Forwarded-For values
\* its requests carry.
C38_SpoofedKeysBounded ==
    (\A r \in Reqs : req[r].pc # "idle" => HostOf(req[r].remote) = "10.0.0.1")
        => Admissions(DOMAIN buckets) <= Burst

\* The processes past the PID-file check of startServer and not yet out.
PastCheck ==
    {p \in Invocations : cli[p] \in {"checked", "serving"}}
        \cup (IF Running THEN {"main"} ELSE {})

\* C39: at most one process is past the PID-file check; a start command
\* that finds the PID file refuses to run; and the stop command removes
\* the PID file only when no server serves any more.
C39_OneServerPastCheck ==
    /\ [](Cardinality(PastCheck) <= 1)
    /\ [][\A p \in Invocations :
            (pidFile /\ cli'[p] # cli[p] /\ cli[p] \in {"idle", "refused", "exited"})
                => cli'[p] = "refused"]_vars
    /\ [][(returned'.fn = "stopServer" /\ pidFile /\ ~pidFile') =>
            /\ proc' # "running"
            /\ \A p \in Invocations : cli'[p] # "serving"]_vars

\* The places of the non-empty lines of a completion.
Filled(lines) == {i \in DOMAIN lines : lines[i] # ""}
Least(S) == CHOOSE i \in S : \A j \in S : i <= j

\* C40: a GeneratePR that returns no error returns a title that is not
\* empty: the first non-empty line of the completion; its description is
\* the completion from the next non-empty line to the end.
C40_TitleNonEmpty ==
    (returned.fn = "GeneratePR" /\ ~returned.err) =>
        LET lines == returned.arg
            first == Least(Filled(lines))
            rest  == {i \in Filled(lines) : i > first}
        IN  /\ returned.Title # ""
            /\ Filled(lines) # {}
            /\ returned.Title = lines[first]
            /\ returned.Description =
                  IF rest = {} THEN <<>> ELSE SubSeq(lines, Least(rest), Len(lines))
====
